---- MODULE Spec2Model ----
(***************************************************************************)
(* Model of src/server.py (DaySignal backend): compute_vwap,               *)
(* avg_vol_last, traffic_light_from_spy, vwap_reclaim_long_signal and the  *)
(* /today handler.                                                         *)
(*                                                                         *)
(* Numbers.  Prices are integers in units of 1/PriceScale; volumes are     *)
(* integers.  The VWAP and the three rule facts are computed in exact      *)
(* rational arithmetic (a VWAP is a pair num/den, compared by cross        *)
(* multiplication); a VWAP with den = 0 is pandas' NaN (0/0), and every    *)
(* comparison against it is FALSE.  The sizing block (lines 82-95) is      *)
(* computed in binary floating point with round-to-nearest-even, as Python *)
(* floats are, at a mantissa of MantBits bits instead of 53.  Prices are   *)
(* given at the full precision of that format in the binade [64, 128).     *)
(*                                                                         *)
(* Line 111 of the source lacks the closing brace of its dict literal; the *)
(* model reads it with the brace in place.  The reason strings are the     *)
(* source's German strings in ASCII.                                       *)
(***************************************************************************)
EXTENDS Integers, Sequences, FiniteSets, TLC

\* ------------------------------------------------------------------------
\* Bounds of the model
\* ------------------------------------------------------------------------
MantBits == 12

MaxLen == 51

\* ------------------------------------------------------------------------
\* Program constants
\* ------------------------------------------------------------------------
WATCHLIST == <<"SPY", "QQQ", "AAPL", "MSFT", "NVDA">>

RISK_EUR == 25

MinBars == 50

DipWindow == 30

VolWindow == 20

LowWindow == 10

\* ------------------------------------------------------------------------
\* Binary floating point: a value is [m, e] = m * 2^e, kept canonical
\* (m odd, or m = 0 and e = 0), so equal values are equal records.
\* ------------------------------------------------------------------------
Abs(x) == IF x < 0 THEN -x ELSE x

Min2(a, b) == IF a <= b THEN a ELSE b

RECURSIVE BitLen(_)
BitLen(n) == IF n = 0 THEN 0 ELSE 1 + BitLen(n \div 2)

RECURSIVE Canon(_, _)
Canon(m, e) ==
    IF m = 0 THEN [m |-> 0, e |-> 0]
    ELSE IF m % 2 = 0 THEN Canon(m \div 2, e + 1)
    ELSE [m |-> m, e |-> e]

\* n / 2^k rounded to the nearest integer, ties to even (n >= 0).
RoundShift(n, k) ==
    LET d == 2 ^ k
        q == n \div d
        r == n % d
    IN  IF 2 * r > d \/ (2 * r = d /\ q % 2 = 1) THEN q + 1 ELSE q

\* The exact value m * 2^e rounded to MantBits significant bits.
FRound(m, e) ==
    LET a == Abs(m)
        k == BitLen(a) - MantBits
        s == IF m < 0 THEN -1 ELSE 1
    IN  IF k <= 0 THEN Canon(m, e) ELSE Canon(s * RoundShift(a, k), e + k)

FromInt(n) == FRound(n, 0)

\* Exact sum and difference (no rounding), as canonical values.
ExactAdd(a, b) ==
    LET lo == Min2(a.e, b.e)
    IN  Canon(a.m * 2 ^ (a.e - lo) + b.m * 2 ^ (b.e - lo), lo)

ExactSub(a, b) == ExactAdd(a, [m |-> -b.m, e |-> b.e])

FAdd(a, b) == LET x == ExactAdd(a, b) IN FRound(x.m, x.e)

FSub(a, b) == LET x == ExactSub(a, b) IN FRound(x.m, x.e)

FMul(a, b) == FRound(a.m * b.m, a.e + b.e)

\* a / b for a >= 0, b > 0: the quotient to MantBits + 2 bits and a sticky
\* bit for the remainder, then rounded.
FDiv(a, b) ==
    LET want == MantBits + 2 + BitLen(b.m) - BitLen(a.m)
        s == IF want > 0 THEN want ELSE 0
        num == a.m * 2 ^ s
        q == num \div b.m
        r == num % b.m
    IN  IF a.m = 0 THEN Canon(0, 0)
        ELSE IF r = 0 THEN FRound(q, a.e - b.e - s)
        ELSE FRound(2 * q + 1, a.e - b.e - s - 1)

FLess(a, b) == ExactSub(a, b).m < 0

\* int(x) for x >= 0: truncation.
FInt(a) == IF a.e >= 0 THEN a.m * 2 ^ a.e ELSE a.m \div 2 ^ (-a.e)

\* The float literals of the source.
F0_001 == FDiv(FromInt(1), FromInt(1000))

F1_0 == FromInt(1)

F2_0 == FromInt(2)

\* ------------------------------------------------------------------------
\* Bars.  A DataFrame is a sequence of rows
\* [symbol, timestamp, high, low, close, volume].
\* ------------------------------------------------------------------------
PriceBits == MantBits - 7

PriceScale == 2 ^ PriceBits

Row(sym, ts, h, l, c, v) ==
    [symbol |-> sym, timestamp |-> ts, high |-> h, low |-> l, close |-> c,
     volume |-> v]

\* The float of a price given in price units.
FromUnits(u) == FRound(u, -PriceBits)

TailN(df, n) == IF Len(df) <= n THEN df ELSE SubSeq(df, Len(df) - n + 1, Len(df))

RECURSIVE SumVolume(_, _)
SumVolume(df, i) == IF i = 0 THEN 0 ELSE SumVolume(df, i - 1) + df[i].volume

\* cumsum of 3 * tp * volume = (high + low + close) * volume, up to row i.
RECURSIVE SumPV3(_, _)
SumPV3(df, i) ==
    IF i = 0 THEN 0
    ELSE SumPV3(df, i - 1) + (df[i].high + df[i].low + df[i].close) * df[i].volume

\* compute_vwap(df)[i] = pv.cumsum() / volume.cumsum(), as the fraction
\* num / den in price units; den = 0 is 0/0 = NaN.
compute_vwap(df) ==
    [i \in 1..Len(df) |-> [num |-> SumPV3(df, i), den |-> 3 * SumVolume(df, i)]]

IsNaN(w) == w.den = 0

\* Mutant of PriceGe: the comparison made strict.
PriceGeStrict(c, w) == ~IsNaN(w) /\ c * w.den > w.num

\* Comparisons of a price with a VWAP value; FALSE against NaN.
PriceLt(c, w) == ~IsNaN(w) /\ c * w.den < w.num

PriceGt(c, w) == ~IsNaN(w) /\ c * w.den > w.num

PriceLe(c, w) == ~IsNaN(w) /\ c * w.den <= w.num

PriceGe(c, w) == ~IsNaN(w) /\ c * w.den >= w.num

\* c < w * 0.998, with 0.998 = 499/500.
PriceLtBand(c, w) == ~IsNaN(w) /\ c * w.den * 500 < w.num * 499

\* avg_vol_last(df, n): the mean of the last n volumes (of all, when fewer),
\* as the fraction sum / count.
avg_vol_last(df, n) ==
    LET t == IF Len(df) >= n THEN TailN(df, n) ELSE df
    IN  [sum |-> SumVolume(t, Len(t)), cnt |-> Len(t)]

\* v >= 1.3 * avg, with 1.3 = 13/10.
VolGe(v, avg) == 10 * v * avg.cnt >= 13 * avg.sum

traffic_light_from_spy(df_spy) ==
    LET vwap == compute_vwap(df_spy)
        n == Len(df_spy)
        last == df_spy[n]
    IN  IF PriceGe(last.close, vwap[n])
        THEN <<"GREEN", "Markt OK (SPY ueber VWAP)">>
        ELSE IF PriceLtBand(last.close, vwap[n])
        THEN <<"RED", "Vorsicht (SPY unter VWAP)">>
        ELSE <<"YELLOW", "Markt neutral">>

\* ------------------------------------------------------------------------
\* vwap_reclaim_long_signal
\* ------------------------------------------------------------------------
RDip == "Kurs war unter VWAP (Dip)"

RReclaim == "Kurs wieder ueber VWAP (Reclaim)"

RVol == "Volumen bestaetigt"

RNotGreen == "Markt nicht gruen -> kein Long-Trade"

RFewBars == "Zu wenig Live-Daten (warte ein paar Minuten)"

RBadStop == "Stop unplausibel -> kein Trade"

RStopTooLarge == "Stop zu gross fuer Risiko -> kein Trade"

RRules == "Regeln erfuellt (VWAP Reclaim Long)"

RVolMissing == "Volumen fehlt -> warten"

RNoSetup == "Kein sauberes Setup"

Wait(conf, reasons) == [action |-> "WAIT", confidence |-> conf, reasons |-> reasons]

\* dip = (d["close"].tail(30) < d["vwap"].tail(30)).any()
Dip(d, vwap) ==
    \E i \in 1..Len(d) : i > Len(d) - DipWindow /\ PriceLt(d[i].close, vwap[i])

\* reclaim = last.close > last.vwap and prev.close <= prev.vwap
Reclaim(d, vwap) ==
    LET n == Len(d)
    IN  PriceGt(d[n].close, vwap[n]) /\ PriceLe(d[n - 1].close, vwap[n - 1])

\* Mutant of VolOk: the average taken over the 20 bars before the last.
VolOkBeforeLast(d) ==
    VolGe(d[Len(d)].volume, avg_vol_last(SubSeq(d, 1, Len(d) - 1), VolWindow))

\* vol_ok = last.volume >= 1.3 * avg_vol_last(d, 20)
VolOk(d) == VolGe(d[Len(d)].volume, avg_vol_last(d, VolWindow))

\* d["low"].tail(10).min()
RecentLow(d) ==
    LET t == TailN(d, LowWindow)
    IN  CHOOSE x \in {t[i].low : i \in 1..Len(t)} :
            \A j \in 1..Len(t) : x <= t[j].low

\* stop = recent_low - 0.001 * entry
StopPrice(entry, recent_low) == FSub(recent_low, FMul(F0_001, entry))

\* r = entry - stop
RiskPerShare(entry, stop) == FSub(entry, stop)

\* Mutant of Shares: round() in place of int().
SharesRounded(r) ==
    FInt(FAdd(FDiv(FromInt(RISK_EUR), r), FDiv(FromInt(1), FromInt(2))))

\* shares = int(RISK_EUR / r)
Shares(r) == FInt(FDiv(FromInt(RISK_EUR), r))

\* Mutant of Target: the target on the wrong side of the entry.
TargetBelow(entry, k, r) == FSub(entry, FMul(k, r))

\* tp = entry + k * r
Target(entry, k, r) == FAdd(entry, FMul(k, r))

\* Lines 81-106: the sizing of a candidate BUY.
Sizing(d, reasons) ==
    LET entry == FromUnits(d[Len(d)].close)
        recent_low == FromUnits(RecentLow(d))
        stop == StopPrice(entry, recent_low)
        r == RiskPerShare(entry, stop)
    IN  IF r.m <= 0 THEN Wait(50, reasons \o <<RBadStop>>)
        ELSE IF Shares(r) < 1 THEN Wait(55, reasons \o <<RStopTooLarge>>)
        ELSE [action |-> "BUY", confidence |-> 75, entryPrice |-> entry,
              stop |-> stop, tp1 |-> Target(entry, F1_0, r),
              tp2 |-> Target(entry, F2_0, r), shares |-> Shares(r),
              reasons |-> reasons \o <<RRules>>]

\* Lines 76-79: the reasons of the facts that hold, in order.
Reasons(dip, reclaim, vol_ok) ==
    (IF dip THEN <<RDip>> ELSE <<>>) \o (IF reclaim THEN <<RReclaim>> ELSE <<>>)
        \o (IF vol_ok THEN <<RVol>> ELSE <<>>)

\* Lines 81-111: the decision on the three facts.
Decide(d, dip, reclaim, vol_ok) ==
    LET reasons == Reasons(dip, reclaim, vol_ok)
    IN  IF dip /\ reclaim /\ vol_ok THEN Sizing(d, reasons)
        ELSE IF reclaim /\ ~vol_ok THEN Wait(55, reasons \o <<RVolMissing>>)
        ELSE Wait(45, IF reasons # <<>> THEN reasons ELSE <<RNoSetup>>)

\* Mutant of RegimeGate: only RED blocks.
RegimeGateRedOnly(market_light) == market_light = "RED"

RegimeGate(market_light) == market_light # "GREEN"

\* Mutant of DataGate: off by one.
DataGateOffByOne(df) == Len(df) < MinBars - 1

DataGate(df) == Len(df) < MinBars

vwap_reclaim_long_signal(df, market_light) ==
    IF RegimeGate(market_light) THEN Wait(35, <<RNotGreen>>)
    ELSE IF DataGate(df) THEN Wait(40, <<RFewBars>>)
    ELSE LET vwap == compute_vwap(df)
         IN  Decide(df, Dip(df, vwap), Reclaim(df, vwap), VolOk(df))

\* ------------------------------------------------------------------------
\* The /today handler
\* ------------------------------------------------------------------------
None == [none |-> TRUE]

\* sig.get(key, default) for the optional keys of a signal.
Get(sig, key, default) == IF key \in DOMAIN sig THEN sig[key] ELSE default

\* sym in bars.index.get_level_values(0)
HasSymbol(bars, sym) == \E i \in 1..Len(bars) : bars[i].symbol = sym

\* bars.xs(sym, level=0)
Xs(bars, sym) == SelectSeq(bars, LAMBDA row : row.symbol = sym)

\* The rank of each row by timestamp (rows of one timestamp keep their order).
RECURSIVE Ranks(_, _)
Ranks(rows, i) ==
    IF i = 0 THEN <<>>
    ELSE Append(Ranks(rows, i - 1),
                1 + Cardinality({j \in 1..Len(rows) :
                      \/ rows[j].timestamp < rows[i].timestamp
                      \/ (rows[j].timestamp = rows[i].timestamp /\ j < i)}))

\* rows.sort_values("timestamp"): the row of rank k comes k-th.
RECURSIVE Place(_, _, _)
Place(rows, rank, k) ==
    IF k = 0 THEN <<>>
    ELSE Append(Place(rows, rank, k - 1),
                rows[CHOOSE i \in 1..Len(rows) : rank[i] = k])

sort_values(rows) == Place(rows, Ranks(rows, Len(rows)), Len(rows))

\* Mutant of MarketLight: a missing reference symbol taken as GREEN.
MarketLightDefaultGreen(bars) ==
    IF ~HasSymbol(bars, "SPY") THEN <<"GREEN", "SPY Daten fehlen (warte)">>
    ELSE traffic_light_from_spy(sort_values(Xs(bars, "SPY")))

\* Lines 131-136: the market light of the request.
MarketLight(bars) ==
    IF ~HasSymbol(bars, "SPY") THEN <<"YELLOW", "SPY Daten fehlen (warte)">>
    ELSE traffic_light_from_spy(sort_values(Xs(bars, "SPY")))

\* Lines 145-160: the record of one symbol (updatedAtISO, the clock, left out).
SignalRecord(sym, sig) ==
    [id |-> sym, symbol |-> sym, action |-> sig.action,
     setup |-> "VWAP Reclaim (Long)",
     confidence |-> Get(sig, "confidence", 50),
     entryPrice |-> Get(sig, "entryPrice", None),
     stop |-> Get(sig, "stop", None),
     tp1 |-> Get(sig, "tp1", None),
     tp2 |-> Get(sig, "tp2", None),
     riskEUR |-> RISK_EUR,
     shares |-> Get(sig, "shares", 0),
     reasons |-> Get(sig, "reasons", <<>>)]

\* The symbols of the fetched rows, in the order they first appear.
RECURSIVE FetchedSymbols(_, _)
FetchedSymbols(bars, i) ==
    IF i = 0 THEN <<>>
    ELSE LET seen == FetchedSymbols(bars, i - 1)
         IN  IF \E j \in 1..Len(seen) : seen[j] = bars[i].symbol THEN seen
             ELSE Append(seen, bars[i].symbol)

\* Mutant of SignalLoop: the loop runs over the fetched symbols.
SignalLoopFetched(bars, market_light, k) ==
    LET syms == SelectSeq(FetchedSymbols(bars, Len(bars)),
                          LAMBDA sym : \E j \in 1..k : WATCHLIST[j] = sym)
    IN  [i \in 1..Len(syms) |->
            SignalRecord(syms[i],
                vwap_reclaim_long_signal(sort_values(Xs(bars, syms[i])),
                                         market_light))]

\* Lines 138-160: the loop over WATCHLIST[1..k].
RECURSIVE SignalLoop(_, _, _)
SignalLoop(bars, market_light, k) ==
    IF k = 0 THEN <<>>
    ELSE LET out == SignalLoop(bars, market_light, k - 1)
             sym == WATCHLIST[k]
         IN  IF ~HasSymbol(bars, sym) THEN out
             ELSE Append(out, SignalRecord(sym,
                      vwap_reclaim_long_signal(sort_values(Xs(bars, sym)),
                                               market_light)))

\* Mutant of today: the empty batch is not refused.
today_NoEmptyCheck(bars) ==
    LET ml == MarketLight(bars)
    IN  [status |-> 200,
         market |-> [spyLight |-> ml[1], note |-> ml[2]],
         signals |-> SignalLoop(bars, ml[1], Len(WATCHLIST))]

\* Lines 116-165.  bars.empty raises RuntimeError, which the except clause
\* turns into HTTPException(500).
today(bars) ==
    IF bars = <<>>
    THEN [status |-> 500,
          detail |-> "No bars returned. Check Alpaca key/plan and symbol coverage."]
    ELSE LET ml == MarketLight(bars)
         IN  [status |-> 200,
              market |-> [spyLight |-> ml[1], note |-> ml[2]],
              signals |-> SignalLoop(bars, ml[1], Len(WATCHLIST))]

\* ------------------------------------------------------------------------
\* Inputs: bar series built from a few bar shapes around a price level.
\* A series is  flat^n . ev . flat^gap . last,  of length len.
\* ------------------------------------------------------------------------
Regimes == {"GREEN", "YELLOW", "RED"}

\* <<high, low, close>> of a bar shape at level L (in price units); lift
\* raises every low and lowers every high (a bar with low > close is not
\* rejected by the code).
Shape(kind, L, lift) ==
    LET one == PriceScale
        hlc == CASE kind = "F" -> <<L, L, L>>
                 [] kind = "U" -> <<L + one, L + one, L + one>>
                 [] kind = "D" -> <<L + one - 1, L - 2 * one + 1, L - 2 * one>>
                 [] kind = "R" -> <<L + one, L, L + one>>
                 [] kind = "RW" -> <<L + 31 * one, L - 30 * one, L + one>>
    IN  <<hlc[1] - lift, hlc[2] + lift, hlc[3]>>

MkSeries(p) ==
    LET n == p.len - p.gap - Len(p.ev) - 1
        kind(i) == IF i = p.len THEN p.last
                   ELSE IF i > n /\ i <= n + Len(p.ev) THEN p.ev[i - n]
                   ELSE "F"
        vol(i) == IF i = p.len THEN p.lv
                  ELSE IF i > n /\ i <= n + Len(p.ev) THEN p.ev_v
                  ELSE p.fv
    IN  [i \in 1..p.len |->
            LET s == Shape(kind(i), p.level * PriceScale, p.lift)
            IN  Row(p.sym, i, s[1], s[2], s[3], vol(i))]

Fits(p) == p.len = 0 \/ p.len - p.gap - Len(p.ev) - 1 >= 0

Events == {<<>>, <<"U", "D">>, <<"D">>, <<"U">>}

Gaps == {0, LowWindow - 2, LowWindow - 1, VolWindow - 3, VolWindow - 2,
         DipWindow - 2, DipWindow - 1}

MainParams ==
    [sym : {"X"}, len : {MinBars, MaxLen}, gap : Gaps, ev : Events,
     last : {"F", "R", "D", "RW"}, level : {100}, lift : {0}, fv : {2},
     ev_v : {2, 6}, lv : {0, 2, 3}]

ZeroParams ==
    [sym : {"X"}, len : {MinBars, MaxLen}, gap : {0, LowWindow - 1},
     ev : {<<>>, <<"U", "D">>}, last : {"F", "R"}, level : {100}, lift : {0},
     fv : {0}, ev_v : {0, 2}, lv : {0, 3}]

LiftParams ==
    [sym : {"X"}, len : {MinBars}, gap : {0, LowWindow - 2, LowWindow - 1},
     ev : Events, last : {"R", "RW"}, level : {100},
     lift : {3 * PriceScale + 2, 4 * PriceScale}, fv : {2}, ev_v : {2},
     lv : {2, 3}]

HighParams ==
    [sym : {"X"}, len : {MinBars}, gap : {0, LowWindow - 2, LowWindow - 1},
     ev : Events, last : {"F", "R"}, level : {126}, lift : {0}, fv : {2},
     ev_v : {2}, lv : {2, 3}]

ShortParams ==
    [sym : {"X"}, len : {0, 1, 2, 6, MinBars - 1}, gap : {0, 4},
     ev : {<<>>, <<"U">>, <<"U", "D">>}, last : {"F", "R", "D"}, level : {100},
     lift : {0}, fv : {0, 2}, ev_v : {2}, lv : {2, 3}]

SeriesParams ==
    {p \in MainParams \cup ZeroParams \cup LiftParams \cup HighParams
           \cup ShortParams : Fits(p)}

SeriesSet == {MkSeries(p) : p \in SeriesParams}

\* ------------------------------------------------------------------------
\* Inputs of /today: what the provider returned.  Each symbol is absent or
\* has one of a few series; the symbols' groups come in the order of
\* symbols, and each group's rows in ascending or descending time.
\* ------------------------------------------------------------------------
BatchSeries(sym, what) ==
    LET base == [sym |-> sym, gap |-> 0, ev |-> <<>>, last |-> "F", level |-> 100,
                 lift |-> 0, fv |-> 2, ev_v |-> 2, lv |-> 3]
    IN  CASE what = "absent" -> <<>>
          [] what = "green" -> MkSeries(base @@ [len |-> 3])
          [] what = "short" -> MkSeries([base EXCEPT !.last = "R"] @@ [len |-> 2])
          [] what = "red" -> MkSeries([base EXCEPT !.last = "D"] @@ [len |-> 3])
          [] what = "yellow" ->
                MkSeries([base EXCEPT !.ev = <<"U">>, !.gap = 4] @@ [len |-> 6])
          [] what = "buy" ->
                MkSeries([base EXCEPT !.ev = <<"U", "D">>, !.last = "R"]
                         @@ [len |-> MinBars])

Reverse(s) == [i \in 1..Len(s) |-> s[Len(s) + 1 - i]]

RECURSIVE Concat(_, _)
Concat(groups, k) == IF k = 0 THEN <<>> ELSE Concat(groups, k - 1) \o groups[k]

Fetched == <<"AAPL", "MSFT", "NVDA", "QQQ", "SPY", "TSLA">>

BatchChoices ==
    [SPY : {"absent", "green", "yellow", "red", "buy"},
     QQQ : {"absent", "short", "buy"},
     AAPL : {"absent", "short"}, MSFT : {"absent", "short"},
     NVDA : {"absent", "short"}, TSLA : {"absent", "short"},
     backwards : BOOLEAN, descending : BOOLEAN]

MkBatch(c) ==
    LET order == IF c.backwards THEN Reverse(Fetched) ELSE Fetched
        group(k) == LET g == BatchSeries(order[k], c[order[k]])
                    IN  IF c.descending THEN Reverse(g) ELSE g
    IN  Concat([k \in 1..Len(order) |-> group(k)], Len(order))

Batches == {MkBatch(c) : c \in BatchChoices}

\* ------------------------------------------------------------------------
\* The state machine: the server is idle, serves one call, and returns;
\* nothing is kept from one request to the next.
\* ------------------------------------------------------------------------
VARIABLES pc, df, market_light, sig, light, bars, resp

vars == <<pc, df, market_light, sig, light, bars, resp>>

NoSig == [action |-> "NONE"]

NoLight == <<"NONE", "">>

NoResp == [status |-> 0]

Init ==
    /\ pc = "idle"
    /\ df = <<>>
    /\ market_light = "NONE"
    /\ sig = NoSig
    /\ light = NoLight
    /\ bars = <<>>
    /\ resp = NoResp

\* One call of vwap_reclaim_long_signal(df, market_light).
CallSignal ==
    /\ pc = "idle"
    /\ \E s \in SeriesSet, l \in Regimes :
          /\ df' = s
          /\ market_light' = l
          /\ sig' = vwap_reclaim_long_signal(s, l)
    /\ pc' = "signal"
    /\ UNCHANGED <<light, bars, resp>>

\* One call of traffic_light_from_spy(df) on a series with at least one bar.
CallTrafficLight ==
    /\ pc = "idle"
    /\ \E s \in SeriesSet :
          /\ Len(s) >= 1
          /\ df' = s
          /\ light' = traffic_light_from_spy(s)
    /\ pc' = "light"
    /\ UNCHANGED <<market_light, sig, bars, resp>>

\* One GET /today.
Today ==
    /\ pc = "idle"
    /\ \E b \in Batches :
          /\ bars' = b
          /\ resp' = today(b)
    /\ pc' = "today"
    /\ UNCHANGED <<df, market_light, sig, light>>

Return ==
    /\ pc # "idle"
    /\ pc' = "idle"
    /\ df' = <<>>
    /\ market_light' = "NONE"
    /\ sig' = NoSig
    /\ light' = NoLight
    /\ bars' = <<>>
    /\ resp' = NoResp

Next == CallSignal \/ CallTrafficLight \/ Today \/ Return

Spec == Init /\ [][Next]_vars

\* ------------------------------------------------------------------------
\* Facts about a series, stated from the bars themselves
\* ------------------------------------------------------------------------
LastClose == df[Len(df)].close

\* Bar i closed strictly below the cumulative VWAP at bar i (which exists).
ClosedBelow(i) ==
    SumVolume(df, i) > 0 /\ 3 * df[i].close * SumVolume(df, i) < SumPV3(df, i)

ClosedAbove(i) ==
    SumVolume(df, i) > 0 /\ 3 * df[i].close * SumVolume(df, i) > SumPV3(df, i)

ClosedAtOrBelow(i) ==
    SumVolume(df, i) > 0 /\ 3 * df[i].close * SumVolume(df, i) <= SumPV3(df, i)

FactDip == \E i \in 1..Len(df) : i >= Len(df) - 29 /\ ClosedBelow(i)

FactReclaim == ClosedAbove(Len(df)) /\ ClosedAtOrBelow(Len(df) - 1)

\* last.volume >= 1.3 * (sum of the last 20 volumes) / 20
FactVolOk ==
    200 * df[Len(df)].volume
        >= 13 * (SumVolume(df, Len(df)) - SumVolume(df, Len(df) - 20))

FactReasons == Reasons(FactDip, FactReclaim, FactVolOk)

Evaluated == pc = "signal" /\ market_light = "GREEN" /\ Len(df) >= 50

Twice(x) == Canon(2 * x.m, x.e)

AbsF(x) == [m |-> Abs(x.m), e |-> x.e]

\* The unit in the last place of a nonzero float.
UlpOf(x) == [m |-> 1, e |-> BitLen(Abs(x.m)) + x.e - MantBits]

\* ------------------------------------------------------------------------
\* Claims
\* ------------------------------------------------------------------------

\* C1: for every series and every regime other than GREEN the signal is
\* WAIT with confidence 35 and the single reason "market not green", also
\* when the series has fewer than 50 bars; never BUY.
C1_NotGreenWaits ==
    (pc = "signal" /\ market_light # "GREEN") =>
        /\ sig = Wait(35, <<RNotGreen>>)
        /\ sig.action # "BUY"

\* C1 witness: a YELLOW or RED call on a series that buys under GREEN.
C1_Witness ==
    /\ pc = "signal"
    /\ market_light \in {"YELLOW", "RED"}
    /\ Len(df) >= 50 /\ FactDip /\ FactReclaim /\ FactVolOk
    /\ sig.confidence = 35

\* C2: a series with fewer than 50 bars never gives BUY; under GREEN it
\* gives WAIT, confidence 40, with the one reason "insufficient live data"
\* (no rule reason, so no VWAP or rule was evaluated).
C2_FewBarsWait ==
    (pc = "signal" /\ Len(df) < 50) =>
        /\ sig.action # "BUY"
        /\ market_light = "GREEN" => sig = Wait(40, <<RFewBars>>)

\* C2 witness: 49 bars under GREEN whose three facts all hold.
C2_Witness ==
    /\ pc = "signal" /\ market_light = "GREEN"
    /\ Len(df) = 49 /\ FactDip /\ FactReclaim /\ FactVolOk
    /\ sig.confidence = 40

RiskOfSeries ==
    LET entry == FromUnits(LastClose)
        low10 == CHOOSE x \in {df[i].low : i \in (Len(df) - 9)..Len(df)} :
                     \A i \in (Len(df) - 9)..Len(df) : x <= df[i].low
    IN  ExactSub(entry, FSub(FromUnits(low10), FMul(F0_001, entry)))

\* n * r <= riskBudget, for a risk per share r = m * 2^e with e <= 0.
WithinBudget(n, r) == n * r.m <= RISK_EUR * 2 ^ (-r.e)

C5_LightBands ==
    (pc = "light" /\ SumVolume(df, Len(df)) > 0) =>
        LET c == 3 * LastClose * SumVolume(df, Len(df))
            w == SumPV3(df, Len(df))
        IN  /\ light[1] \in {"GREEN", "YELLOW", "RED"}
            /\ light[1] = "GREEN" <=> c >= w
            /\ light[1] = "RED" <=> 1000 * c < 998 * w
            /\ light[1] = "YELLOW" <=> (1000 * c >= 998 * w /\ c < w)

\* C5 witness: a close inside the band below the VWAP.
C5_Witness ==
    /\ pc = "light" /\ SumVolume(df, Len(df)) > 0
    /\ light[1] = "YELLOW"
    /\ 3 * LastClose * SumVolume(df, Len(df)) < SumPV3(df, Len(df))

\* C6: when the provider returns no bars at all, /today ends in one error
\* and returns no regime and no signals.
C6_EmptyBatchFails ==
    (pc = "today" /\ bars = <<>>) =>
        /\ resp.status = 500
        /\ DOMAIN resp = {"status", "detail"}

\* C6 witness: the request with an empty batch, answered.
C6_Witness == pc = "today" /\ bars = <<>> /\ resp.status = 500

\* C7: a non-empty batch without SPY does not fail: the regime is YELLOW
\* with the note "SPY data missing (wait)", and every watch-listed symbol
\* in the batch gets a WAIT record with confidence 35.
C7_MissingReferenceWaits ==
    (pc = "today" /\ bars # <<>> /\ ~\E i \in 1..Len(bars) : bars[i].symbol = "SPY") =>
        /\ resp.status = 200
        /\ resp.market = [spyLight |-> "YELLOW", note |-> "SPY Daten fehlen (warte)"]
        /\ \A i \in 1..Len(resp.signals) :
               /\ resp.signals[i].action = "WAIT"
               /\ resp.signals[i].confidence = 35
        /\ \A k \in 1..Len(WATCHLIST) :
               (\E i \in 1..Len(bars) : bars[i].symbol = WATCHLIST[k]) =>
                   \E j \in 1..Len(resp.signals) :
                       resp.signals[j].symbol = WATCHLIST[k]

\* C7 witness: no SPY, and QQQ with a series of 50 bars that buys under GREEN.
C7_Witness ==
    /\ pc = "today"
    /\ ~\E i \in 1..Len(bars) : bars[i].symbol = "SPY"
    /\ Cardinality({i \in 1..Len(bars) : bars[i].symbol = "QQQ"}) >= 50
    /\ \E j \in 1..Len(resp.signals) :
           resp.signals[j].symbol = "QQQ" /\ resp.signals[j].confidence = 35

\* The watch-listed symbols with bars in the batch, in watchlist order.
Covered == SelectSeq(WATCHLIST, LAMBDA sym : \E i \in 1..Len(bars) : bars[i].symbol = sym)

\* C8: for a non-empty batch the signals are one record per watch-listed
\* symbol with bars, none for any other symbol, in watchlist order whatever
\* the order of the fetched data, and each record is the signal of that
\* symbol's series under the one regime of the request.
C8_OneRecordPerCoveredSymbol ==
    (pc = "today" /\ bars # <<>>) =>
        /\ resp.status = 200
        /\ Len(resp.signals) = Len(Covered)
        /\ \A i \in 1..Len(Covered) :
               resp.signals[i] =
                   SignalRecord(Covered[i],
                       vwap_reclaim_long_signal(sort_values(Xs(bars, Covered[i])),
                                                resp.market.spyLight))

\* C8 witness: the fetched data starts with a symbol that is not watched,
\* in descending time, some watch-listed symbols are absent, and the GREEN
\* regime gives a BUY and a WAIT.
C8_Witness ==
    /\ pc = "today" /\ bars # <<>>
    /\ bars[1].symbol = "TSLA" /\ bars[1].timestamp > 1
    /\ Len(resp.signals) \in 3..4
    /\ \E i, j \in 1..Len(resp.signals) :
           resp.signals[i].action = "BUY" /\ resp.signals[j].confidence = 40

\* C9: under GREEN with at least 50 bars: BUY only when dip, reclaim and
\* volOk all hold; reclaim without volOk gives WAIT 55 "volume missing"
\* whatever dip is; every other combination short of all three gives WAIT
\* 45 with the reasons of the facts that hold, or "no clean setup" when
\* none holds.
C9_DecisionTable ==
    Evaluated =>
        /\ sig.action = "BUY" => (FactDip /\ FactReclaim /\ FactVolOk)
        /\ (FactReclaim /\ ~FactVolOk) =>
               sig = Wait(55, FactReasons \o <<RVolMissing>>)
        /\ (~FactReclaim /\ (FactDip \/ FactVolOk)) => sig = Wait(45, FactReasons)
        /\ (~FactDip /\ FactReclaim /\ FactVolOk) => sig = Wait(45, FactReasons)
        /\ (~FactDip /\ ~FactReclaim /\ ~FactVolOk) => sig = Wait(45, <<RNoSetup>>)

\* C9 witness: a reclaim with neither a dip nor volume.
C9_Witness ==
    /\ Evaluated /\ ~FactDip /\ FactReclaim /\ ~FactVolOk
    /\ sig = Wait(55, <<RReclaim, RVolMissing>>)

\* C10: a series of at least 50 bars whose volumes are all zero, under
\* GREEN, gives a WAIT that reports insufficient data and no rule
\* confirmation such as "volume confirmed".
C10_ZeroVolumeInsufficient ==
    (Evaluated /\ \A i \in 1..Len(df) : df[i].volume = 0) =>
        /\ sig.action = "WAIT"
        /\ sig.reasons = <<RFewBars>>
        /\ \A i \in 1..Len(sig.reasons) : sig.reasons[i] # RVol

====
